---- MODULE Spec2Model ----
(***************************************************************************)
(* KINESO kinematics demo (resources/js/kinematics.js).                    *)
(*                                                                         *)
(* The page keeps one trajectory state (times, xs, vs, as, x0, v0, dt),    *)
(* recomputes it from the form (updateFromForm) and edits it in place when *)
(* a chart point is dropped (applyDragSync), then redraws a table, three   *)
(* small charts and a main chart.                                          *)
(*                                                                         *)
(* Numbers.  A JavaScript number is modelled as an exact rational          *)
(* <<n, d>> in lowest terms with d > 0; <<0, 0>> is NaN and <<1, 0>> is    *)
(* the value undefined (an array hole or a read past the end).  The        *)
(* rounding error of IEEE doubles is not modelled; the decimal rounding    *)
(* the program asks for (toFixed) is.                                      *)
(*                                                                         *)
(* Arrays.  A JavaScript array is a sequence; JavaScript index i is        *)
(* position i + 1 of the sequence.                                         *)
(***************************************************************************)
EXTENDS Integers, Sequences, FiniteSets, TLC

\* ------------------------------------------------------------------ bounds

\* Drag-end edits explored on one trajectory (between two recomputes) of
\* the whole page.
MaxEdits == 1

\* Drag-end edits explored in a row on one freshly generated trajectory.
MaxChain == 2

\* Change listeners on the Enable-drag checkbox explored in one behaviour.
MaxListeners == 4

\* Largest maxPoints handed to computeKinematics by the generator checks.
MaxCap == 3

\* Longest sample sequence handed to the differentiators called directly.
MaxLen == 4

\* ----------------------------------------------------------------- numbers

NaN == <<0, 0>>

Undefined == <<1, 0>>

IsNum(x) == x[2] # 0

Abs(n) == IF n < 0 THEN -n ELSE n

RECURSIVE GCD(_, _)
GCD(a, b) == IF b = 0 THEN a ELSE GCD(b, a % b)

\* The rational n/d in lowest terms; a zero denominator gives NaN.
R(n, d) ==
    IF d = 0 THEN NaN
    ELSE LET g == GCD(Abs(n), Abs(d))
             s == IF d < 0 THEN -1 ELSE 1
         IN  <<(s * n) \div g, (s * d) \div g>>

Zero == R(0, 1)

Half == R(1, 2)

Two == R(2, 1)

\* The operations below cancel common factors before they multiply, so that
\* intermediate products stay as small as the result allows.

\* a + b; NaN or undefined in either operand gives NaN.
Add(a, b) ==
    IF IsNum(a) /\ IsNum(b)
    THEN LET g == GCD(a[2], b[2])
         IN  R(a[1] * (b[2] \div g) + b[1] * (a[2] \div g), (a[2] \div g) * b[2])
    ELSE NaN

Sub(a, b) ==
    IF IsNum(a) /\ IsNum(b)
    THEN LET g == GCD(a[2], b[2])
         IN  R(a[1] * (b[2] \div g) - b[1] * (a[2] \div g), (a[2] \div g) * b[2])
    ELSE NaN

Mul(a, b) ==
    IF IsNum(a) /\ IsNum(b)
    THEN LET g1 == GCD(Abs(a[1]), b[2])
             g2 == GCD(Abs(b[1]), a[2])
         IN  R((a[1] \div g1) * (b[1] \div g2), (a[2] \div g2) * (b[2] \div g1))
    ELSE NaN

\* a / b.  Every divisor of the program is dt, 2*dt or dt*dt with dt > 0
\* (DtPositive below), so the divisor is never zero in a reachable state.
Div(a, b) ==
    IF IsNum(a) /\ IsNum(b) /\ b[1] # 0
    THEN Mul(a, IF b[1] < 0 THEN <<-b[2], -b[1]>> ELSE <<b[2], b[1]>>)
    ELSE NaN

\* a <= b; any comparison with NaN is false.
Leq(a, b) ==
    /\ IsNum(a)
    /\ IsNum(b)
    /\ a[1] * (b[2] \div GCD(a[2], b[2])) <= b[1] * (a[2] \div GCD(a[2], b[2]))

Lt(a, b) ==
    /\ IsNum(a)
    /\ IsNum(b)
    /\ a[1] * (b[2] \div GCD(a[2], b[2])) < b[1] * (a[2] \div GCD(a[2], b[2]))

\* Digits of the tolerance 1e-12 of the sampling loop.
EpsDigits == 12

RECURSIVE DivPow10(_, _)
DivPow10(n, k) == IF k = 0 THEN n ELSE DivPow10(n \div 10, k - 1)

\* t <= t1 + 1e-12, computed without forming 10^12:
\* n/d <= 10^-12 iff n <= 0 or n <= floor(d / 10^12).
LeqEps(t, t1) ==
    LET diff == Sub(t, t1)
    IN  IsNum(diff) /\ (diff[1] <= 0 \/ diff[1] <= DivPow10(diff[2], EpsDigits))

RECURSIVE Pow10(_)
Pow10(k) == IF k = 0 THEN 1 ELSE 10 * Pow10(k - 1)

\* The first k decimal digits of rem/d (0 <= rem < d) as <<digits, remainder>>.
RECURSIVE FracDigits(_, _, _, _)
FracDigits(rem, d, k, acc) ==
    IF k = 0 THEN <<acc, rem>>
    ELSE FracDigits((rem * 10) % d, d, k - 1, acc * 10 + (rem * 10) \div d)

\* Number(x.toFixed(k)): x rounded to k decimals, ties away from zero; NaN
\* stays NaN.  (toFixed on undefined throws; no caller reaches that here.)
ToFixed(x, k) ==
    IF ~IsNum(x) THEN NaN
    ELSE LET p  == Abs(x[1])
             q  == x[2]
             fd == FracDigits(p % q, q, k, 0)
             up == IF 2 * fd[2] >= q THEN 1 ELSE 0
             m  == Add(R(p \div q, 1), R(fd[1] + up, Pow10(k)))
         IN  IF x[1] < 0 THEN Sub(Zero, m) ELSE m

\* Decimals kept by the generator.
GenDigits == 8

\* Decimals shown by the table.
TableDigits == 3

\* -------------------------------------------------------------- arrays

\* arr[i] as JavaScript reads it: undefined outside [0, length).
Get(arr, i) == IF 0 <= i /\ i < Len(arr) THEN arr[i + 1] ELSE Undefined

\* arr[i] = v as JavaScript writes it: in range it replaces the element,
\* past the end it grows the array leaving holes, and a negative index
\* sets a property and leaves the elements alone.
SetAt(arr, i, v) ==
    IF i < 0 THEN arr
    ELSE IF i < Len(arr) THEN [arr EXCEPT ![i + 1] = v]
    ELSE [k \in 1..(i + 1) |->
            IF k <= Len(arr) THEN arr[k] ELSE IF k = i + 1 THEN v ELSE Undefined]

\* ------------------------------------------------------ kinematics helpers

Empty == [times |-> <<>>, xs |-> <<>>, vs |-> <<>>, as |-> <<>>]

\* The sampling loop advancing the time by twice the step.
RECURSIVE GenLoopDoubleStep(_, _, _, _, _, _, _, _)
GenLoopDoubleStep(x0, v0, a, t, t1, dt, maxPoints, acc) ==
    IF ~LeqEps(t, t1) THEN acc
    ELSE LET x   == Add(Add(x0, Mul(v0, t)), Mul(Mul(Mul(Half, a), t), t))
             v   == Add(v0, Mul(a, t))
             nxt == [times |-> Append(acc.times, ToFixed(t, GenDigits)),
                     xs    |-> Append(acc.xs, ToFixed(x, GenDigits)),
                     vs    |-> Append(acc.vs, ToFixed(v, GenDigits)),
                     as    |-> Append(acc.as, ToFixed(a, GenDigits))]
         IN  IF Len(nxt.times) >= maxPoints THEN nxt
             ELSE GenLoopDoubleStep(x0, v0, a, Add(t, Add(dt, dt)), t1, dt, maxPoints, nxt)

\* The body of the sampling loop of computeKinematics from time t on.
RECURSIVE GenLoop(_, _, _, _, _, _, _, _)
GenLoop(x0, v0, a, t, t1, dt, maxPoints, acc) ==
    IF ~LeqEps(t, t1) THEN acc
    ELSE LET x   == Add(Add(x0, Mul(v0, t)), Mul(Mul(Mul(Half, a), t), t))
             v   == Add(v0, Mul(a, t))
             nxt == [times |-> Append(acc.times, ToFixed(t, GenDigits)),
                     xs    |-> Append(acc.xs, ToFixed(x, GenDigits)),
                     vs    |-> Append(acc.vs, ToFixed(v, GenDigits)),
                     as    |-> Append(acc.as, ToFixed(a, GenDigits))]
         IN  IF Len(nxt.times) >= maxPoints THEN nxt
             ELSE GenLoop(x0, v0, a, Add(t, dt), t1, dt, maxPoints, nxt)

\* computeKinematics with the step check written dt < 0.
computeKinematicsStrict(x0, v0, a, t0, t1, dt, maxPoints) ==
    IF Lt(dt, Zero) THEN Empty
    ELSE GenLoop(x0, v0, a, t0, t1, dt, maxPoints, Empty)

computeKinematics(x0, v0, a, t0, t1, dt, maxPoints) ==
    IF Leq(dt, Zero) THEN Empty
    ELSE GenLoop(x0, v0, a, t0, t1, dt, maxPoints, Empty)

\* computeVFromX with the forward difference at interior indices too.
computeVFromXForward(xs, dt) ==
    LET n == Len(xs)
    IN  [k \in 1..n |->
            LET i == k - 1
            IN  IF i = 0 THEN Div(Sub(Get(xs, 1), Get(xs, 0)), dt)
                ELSE IF i = n - 1 THEN Div(Sub(Get(xs, n - 1), Get(xs, n - 2)), dt)
                ELSE Div(Sub(Get(xs, i + 1), Get(xs, i)), dt)]

computeVFromX(xs, dt) ==
    LET n == Len(xs)
    IN  [k \in 1..n |->
            LET i == k - 1
            IN  IF i = 0 THEN Div(Sub(Get(xs, 1), Get(xs, 0)), dt)
                ELSE IF i = n - 1 THEN Div(Sub(Get(xs, n - 1), Get(xs, n - 2)), dt)
                ELSE Div(Sub(Get(xs, i + 1), Get(xs, i - 1)), Mul(Two, dt))]

\* computeAFromX without the special cases for the first and last index.
computeAFromXNoBoundary(xs, dt) ==
    [k \in 1..Len(xs) |->
        Div(Add(Sub(Get(xs, k), Mul(Two, Get(xs, k - 1))), Get(xs, k - 2)), Mul(dt, dt))]

computeAFromX(xs, dt) ==
    LET n == Len(xs)
        d2(p, q, r) == Div(Add(Sub(p, Mul(Two, q)), r), Mul(dt, dt))
    IN  [k \in 1..n |->
            LET i == k - 1
            IN  IF i = 0 THEN d2(Get(xs, 2), Get(xs, 1), Get(xs, 0))
                ELSE IF i = n - 1
                     THEN d2(Get(xs, n - 1), Get(xs, n - 2), Get(xs, n - 3))
                ELSE d2(Get(xs, i + 1), Get(xs, i), Get(xs, i - 1))]

\* computeAFromV with the one-sided difference at interior indices too.
computeAFromVOneSided(vs, dt) ==
    LET n == Len(vs)
    IN  [k \in 1..n |->
            LET i == k - 1
            IN  IF i = 0 THEN Div(Sub(Get(vs, 1), Get(vs, 0)), dt)
                ELSE Div(Sub(Get(vs, i), Get(vs, i - 1)), dt)]

computeAFromV(vs, dt) ==
    LET n == Len(vs)
    IN  [k \in 1..n |->
            LET i == k - 1
            IN  IF i = 0 THEN Div(Sub(Get(vs, 1), Get(vs, 0)), dt)
                ELSE IF i = n - 1 THEN Div(Sub(Get(vs, n - 1), Get(vs, n - 2)), dt)
                ELSE Div(Sub(Get(vs, i + 1), Get(vs, i - 1)), Mul(Two, dt))]

\* The loop of integrateVToX with the rectangle rule: each step adds
\* vs[k-1] * dt.
RECURSIVE TrapLoopLeftRule(_, _, _, _)
TrapLoopLeftRule(vs, dt, k, acc) ==
    IF k >= Len(vs) THEN acc
    ELSE TrapLoopLeftRule(vs, dt, k + 1,
            Append(acc, Add(Get(acc, k - 1), Mul(Get(vs, k - 1), dt))))

\* The loop of integrateVToX from index k on; acc holds xs[0..k-1].
RECURSIVE TrapLoop(_, _, _, _)
TrapLoop(vs, dt, k, acc) ==
    IF k >= Len(vs) THEN acc
    ELSE TrapLoop(vs, dt, k + 1,
            Append(acc, Add(Get(acc, k - 1),
                            Mul(Mul(Half, Add(Get(vs, k - 1), Get(vs, k))), dt))))

\* xs[0] = x0 is written even when vs is empty, so the result has at least
\* one element.
integrateVToX(vs, x0, dt) == TrapLoop(vs, dt, 1, <<x0>>)

\* The loop of integrateAToV from index k on; acc holds vs[0..k-1].
RECURSIVE EulerLoop(_, _, _, _)
EulerLoop(as, dt, k, acc) ==
    IF k >= Len(as) THEN acc
    ELSE EulerLoop(as, dt, k + 1,
            Append(acc, Add(Get(acc, k - 1), Mul(Get(as, k - 1), dt))))

integrateAToV(as, v0, dt) == EulerLoop(as, dt, 1, <<v0>>)

\* ------------------------------------------------------------ page state

VARIABLES
    loaded,          \* the DOMContentLoaded handler has run
    state,           \* the trajectory state object of the handler's closure
    smallPosChart,   \* module-level chart instances
    smallVelChart,
    smallAccChart,
    mainChart,       \* module-level mainChart, read by refreshChartsAndTable
    mainChartInner,  \* the closure's own mainChart, written by updateFromForm
    table,           \* rows of the results table
    checked,         \* the Enable-drag checkbox
    listeners,       \* change listeners registered on the checkbox
    last,            \* the most recent event handled
    edits,           \* drag-end edits since the arrays were last replaced
    call             \* a direct call of a helper function: arguments and result

vars == <<loaded, state, smallPosChart, smallVelChart, smallAccChart, mainChart,
          mainChartInner, table, checked, listeners, last, edits, call>>

\* A chart variable holding null.
NoChart == [live |-> FALSE, data |-> <<>>, data2 |-> <<>>, drag |-> FALSE]

\* new Chart(...) with one or two datasets; drag is the dragData option
\* setupDragOptions returned when the chart was created.
NewChart(d, d2, dragOn) == [live |-> TRUE, data |-> d, data2 |-> d2, drag |-> dragOn]

\* The maxPoints updateFromForm passes to the generator.
MaxPointsForm == 1000

\* The step used when the dt field does not parse or is 0.
DefaultDt == R(1, 10)

\* parseFloat(field) || dflt: an unparsable field (NaN) and 0 both give dflt.
ParseOr(field, dflt) == IF ~IsNum(field) \/ field = Zero THEN dflt ELSE field

\* The rows renderTable writes: time, velocity and position to 3 decimals.
renderTable(ts, px, pv, pa) ==
    [k \in 1..Len(ts) |->
        <<ToFixed(ts[k], TableDigits),
          ToFixed(Get(pv, k - 1), TableDigits),
          ToFixed(Get(px, k - 1), TableDigits)>>]

\* The whole page as one record, for the handlers below.
Page ==
    [state |-> state, smallPosChart |-> smallPosChart, smallVelChart |-> smallVelChart,
     smallAccChart |-> smallAccChart, mainChart |-> mainChart,
     mainChartInner |-> mainChartInner, table |-> table, checked |-> checked,
     listeners |-> listeners]

\* The parameters updateFromForm parses from form content f.
Parsed(f) ==
    [x0 |-> ParseOr(f.x0, Zero), v0 |-> ParseOr(f.v0, Zero), a |-> ParseOr(f.a, Zero),
     t0 |-> ParseOr(f.t0, Zero), t1 |-> ParseOr(f.t1, Zero),
     dt |-> ParseOr(f.dt, DefaultDt)]

\* setupDragOptions: the options are fixed when the chart is created, from
\* state.dragEnabled at that moment.
setupDragOptions(st) == st.dragEnabled

\* Redraw that keeps the chart instances it already has instead of creating
\* new ones from k.
RedrawKeepsCharts(p, q, k, drag) ==
    [p EXCEPT !.state.x0 = q.x0, !.state.v0 = q.v0, !.state.dt = q.dt,
              !.state.times = k.times, !.state.xs = k.xs,
              !.state.vs = k.vs, !.state.as = k.as,
              !.state.dragEnabled = p.checked,
              !.table = renderTable(k.times, k.xs, k.vs, k.as),
              !.smallPosChart = IF @.live THEN @ ELSE NewChart(k.xs, <<>>, drag),
              !.smallVelChart = IF @.live THEN @ ELSE NewChart(k.vs, <<>>, drag),
              !.smallAccChart = IF @.live THEN @ ELSE NewChart(k.as, <<>>, drag),
              !.mainChartInner = IF @.live THEN @ ELSE NewChart(k.xs, k.vs, FALSE),
              !.listeners = p.listeners + 1]

\* Redraw that draws the table and the charts before it replaces the state,
\* so they show the arrays the state held until then.
RedrawBeforeReplace(p, q, k, drag) ==
    [p EXCEPT !.state.x0 = q.x0, !.state.v0 = q.v0, !.state.dt = q.dt,
              !.state.times = k.times, !.state.xs = k.xs,
              !.state.vs = k.vs, !.state.as = k.as,
              !.state.dragEnabled = p.checked,
              !.table = renderTable(p.state.times, p.state.xs, p.state.vs, p.state.as),
              !.smallPosChart = NewChart(p.state.xs, <<>>, drag),
              !.smallVelChart = NewChart(p.state.vs, <<>>, drag),
              !.smallAccChart = NewChart(p.state.as, <<>>, drag),
              !.mainChartInner = NewChart(p.state.xs, p.state.vs, FALSE),
              !.listeners = p.listeners + 1]

\* The tail of updateFromForm once the generator has returned k: the state
\* is replaced first, then the table and the charts are drawn from k, the
\* checkbox is copied into state.dragEnabled and one more change listener
\* is registered.  drag is the dragData option of the new small charts,
\* taken from state.dragEnabled before the checkbox is copied.
Redraw(p, q, k, drag) ==
    IF Len(k.times) = 0
    THEN [p EXCEPT !.state.x0 = q.x0, !.state.v0 = q.v0, !.state.dt = q.dt,
                   !.state.times = k.times, !.state.xs = k.xs,
                   !.state.vs = k.vs, !.state.as = k.as]
    ELSE [p EXCEPT !.state.x0 = q.x0, !.state.v0 = q.v0, !.state.dt = q.dt,
                   !.state.times = k.times, !.state.xs = k.xs,
                   !.state.vs = k.vs, !.state.as = k.as,
                   !.state.dragEnabled = p.checked,
                   !.table = renderTable(k.times, k.xs, k.vs, k.as),
                   !.smallPosChart = NewChart(k.xs, <<>>, drag),
                   !.smallVelChart = NewChart(k.vs, <<>>, drag),
                   !.smallAccChart = NewChart(k.as, <<>>, drag),
                   !.mainChartInner = NewChart(k.xs, k.vs, FALSE),
                   !.listeners = p.listeners + 1]

\* updateFromForm storing x0, v0 and dt before it makes its two checks.
RecomputeStoresFirst(p, q) ==
    IF Leq(q.dt, Zero) \/ Lt(q.t1, q.t0)
    THEN [p EXCEPT !.state.x0 = q.x0, !.state.v0 = q.v0, !.state.dt = q.dt]
    ELSE Redraw(p, q,
                computeKinematics(q.x0, q.v0, q.a, q.t0, q.t1, q.dt, MaxPointsForm),
                setupDragOptions(p.state))

\* updateFromForm after parsing: the two checks, then the generator.
Recompute(p, q) ==
    IF Leq(q.dt, Zero) THEN p
    ELSE IF Lt(q.t1, q.t0) THEN p
    ELSE Redraw(p, q,
                computeKinematics(q.x0, q.v0, q.a, q.t0, q.t1, q.dt, MaxPointsForm),
                setupDragOptions(p.state))

\* updateFromForm on page p with form content f.
updateFromForm(p, f) == Recompute(p, Parsed(f))

\* refreshChartsAndTable: redraws the table and every chart variable of
\* module scope that is not null.
refreshChartsAndTable(p) ==
    [p EXCEPT
      !.table = renderTable(p.state.times, p.state.xs, p.state.vs, p.state.as),
      !.smallPosChart = IF @.live THEN [@ EXCEPT !.data = p.state.xs] ELSE @,
      !.smallVelChart = IF @.live THEN [@ EXCEPT !.data = p.state.vs] ELSE @,
      !.smallAccChart = IF @.live THEN [@ EXCEPT !.data = p.state.as] ELSE @,
      !.mainChart = IF @.live THEN [@ EXCEPT !.data = p.state.xs, !.data2 = p.state.vs]
                    ELSE @]

\* The position branch with the acceleration taken from the derived
\* velocities instead of the positions.
FromPositionViaV(st, nx) ==
    [st EXCEPT !.xs = nx, !.vs = computeVFromX(nx, st.dt),
               !.as = computeAFromV(computeVFromX(nx, st.dt), st.dt)]

\* The position branch also storing the first position as x0.
FromPositionSyncsX0(st, nx) ==
    [st EXCEPT !.xs = nx, !.vs = computeVFromX(nx, st.dt),
               !.as = computeAFromX(nx, st.dt), !.x0 = Get(nx, 0)]

\* The position branch taking the accelerations from the velocities the
\* state held before the edit.
FromPositionStaleV(st, nx) ==
    [st EXCEPT !.xs = nx, !.vs = computeVFromX(nx, st.dt),
               !.as = computeAFromV(st.vs, st.dt)]

\* The position branch of applyDragSync once xs[index] is written.
FromPosition(st, nx) ==
    [st EXCEPT !.xs = nx, !.vs = computeVFromX(nx, st.dt), !.as = computeAFromX(nx, st.dt)]

\* The velocity branch with the acceleration taken from the integrated
\* positions instead of the velocities.
FromVelocityViaX(st, nv) ==
    [st EXCEPT !.vs = nv, !.xs = integrateVToX(nv, st.x0, st.dt),
               !.as = computeAFromX(integrateVToX(nv, st.x0, st.dt), st.dt)]

\* The velocity branch re-deriving the edited series as well, from the
\* positions it has just integrated.
FromVelocityRederived(st, nv) ==
    [st EXCEPT !.vs = computeVFromX(integrateVToX(nv, st.x0, st.dt), st.dt),
               !.xs = integrateVToX(nv, st.x0, st.dt),
               !.as = computeAFromV(nv, st.dt)]

\* The velocity branch integrating from the current first position instead
\* of the stored x0.
FromVelocityFromFirstX(st, nv) ==
    [st EXCEPT !.vs = nv, !.xs = integrateVToX(nv, Get(st.xs, 0), st.dt),
               !.as = computeAFromV(nv, st.dt)]

\* The velocity branch of applyDragSync once vs[index] is written.
FromVelocity(st, nv) ==
    [st EXCEPT !.vs = nv, !.xs = integrateVToX(nv, st.x0, st.dt),
               !.as = computeAFromV(nv, st.dt)]

\* The acceleration branch integrating the positions from the velocities
\* the state held before the edit.
FromAccelerationStale(st, na, nv) ==
    [st EXCEPT !.as = na, !.vs = nv, !.xs = integrateVToX(st.vs, st.x0, st.dt)]

\* The acceleration branch of applyDragSync once as[index] is written and
\* the velocities nv are integrated from it.
FromAcceleration(st, na, nv) ==
    [st EXCEPT !.as = na, !.vs = nv, !.xs = integrateVToX(nv, st.x0, st.dt)]

\* The edit of applyDragSync on the state object alone.
SyncState(chartType, index, newValue, st) ==
    IF chartType = "position" THEN FromPosition(st, SetAt(st.xs, index, newValue))
    ELSE IF chartType = "velocity" THEN FromVelocity(st, SetAt(st.vs, index, newValue))
    ELSE IF chartType = "acceleration"
         THEN FromAcceleration(st, SetAt(st.as, index, newValue),
                               integrateAToV(SetAt(st.as, index, newValue), st.v0, st.dt))
    ELSE st

applyDragSync(chartType, index, newValue, p) ==
    refreshChartsAndTable([p EXCEPT !.state = SyncState(chartType, index, newValue, p.state)])

\* The onDragEnd callback of a draggable chart.  After applyDragSync it
\* writes only to the readout and, for index 0, to a form field; neither is
\* part of the page record (the form is read as an input by updateFromForm).
onDragEnd(chartType, index, value, p) == applyDragSync(chartType, index, value, p)

\* The change listeners of the checkbox, run one after another: each copies
\* the checkbox into state.dragEnabled and runs updateFromForm.
RECURSIVE RunListeners(_, _, _)
RunListeners(n, p, f) ==
    IF n = 0 THEN p
    ELSE RunListeners(n - 1,
            updateFromForm([p EXCEPT !.state.dragEnabled = p.checked], f), f)

\* ----------------------------------------------------------------- inputs

ChartTypes == {"position", "velocity", "acceleration"}

X0Vals == {NaN, R(1, 1)}
V0Vals == {R(1, 1)}
AVals == {R(2, 1)}
T0Vals == {NaN, R(1, 10)}
T1Vals == {NaN, R(1, 5)}

\* A step the form check rejects.
BadDt == R(-1, 1)

\* Values a drag can drop a point at.
DragVals == {R(3, 1), R(-1, 2)}

\* What the form can hold when a handler reads it.  A field that is missing
\* or does not parse reads as NaN.
Forms ==
    [x0 : X0Vals, v0 : V0Vals, a : AVals, t0 : T0Vals, t1 : T1Vals, dt : {NaN}]
    \cup {[x0 |-> NaN, v0 |-> R(1, 1), a |-> R(2, 1), t0 |-> NaN, t1 |-> R(1, 5),
           dt |-> BadDt]}

\* The two checks updateFromForm makes before it touches the state.
Valid(q) == ~Leq(q.dt, Zero) /\ ~Lt(q.t1, q.t0)

NoParams == [x0 |-> NaN, v0 |-> NaN, a |-> NaN, t0 |-> NaN, t1 |-> NaN, dt |-> NaN]

\* The record of an event.  For a recompute (page load, submit, checkbox
\* change): how many times updateFromForm ran, whether the form passed its
\* checks and, if it did, the parameters it ran with and the number of
\* drag-end edits the replaced trajectory had received.  For a drag-end:
\* the chart, index and value delivered.
NoEvent ==
    [op |-> "none", runs |-> 0, ok |-> FALSE, params |-> NoParams, dropped |-> 0,
     chartType |-> "", index |-> 0, value |-> NaN]

FormEvent(n, f) ==
    [op |-> "recompute", runs |-> n, ok |-> n > 0 /\ Valid(Parsed(f)),
     params |-> IF n > 0 /\ Valid(Parsed(f)) THEN Parsed(f) ELSE NoParams,
     dropped |-> IF n > 0 /\ Valid(Parsed(f)) THEN edits ELSE 0,
     chartType |-> "", index |-> 0, value |-> NaN]

DragEvent(c, i, v) ==
    [op |-> "drag", runs |-> 0, ok |-> FALSE, params |-> NoParams, dropped |-> 0,
     chartType |-> c, index |-> i, value |-> v]

\* ------------------------------------------------------------------ actions

\* The page before the DOMContentLoaded handler runs, with the checkbox as
\* the document delivers it.
FreshPage(chk) ==
    [state |-> [times |-> <<>>, xs |-> <<>>, vs |-> <<>>, as |-> <<>>,
                x0 |-> Zero, v0 |-> Zero, dt |-> DefaultDt, dragEnabled |-> FALSE],
     smallPosChart |-> NoChart, smallVelChart |-> NoChart, smallAccChart |-> NoChart,
     mainChart |-> NoChart, mainChartInner |-> NoChart, table |-> <<>>,
     checked |-> chk, listeners |-> 0]

\* No direct call of the generator has been made.
NoCall == [done |-> FALSE, args |-> <<>>, out |-> Empty]

\* Every variable of the page has the value record q gives it.
Is(q) ==
    /\ state = q.state
    /\ smallPosChart = q.smallPosChart
    /\ smallVelChart = q.smallVelChart
    /\ smallAccChart = q.smallAccChart
    /\ mainChart = q.mainChart
    /\ mainChartInner = q.mainChartInner
    /\ table = q.table
    /\ checked = q.checked
    /\ listeners = q.listeners

Init ==
    /\ loaded = FALSE
    /\ \E chk \in BOOLEAN : Is(FreshPage(chk))
    /\ last = NoEvent
    /\ edits = 0
    /\ call = NoCall

\* The edits counted against the bound are those made to the current
\* trajectory: a recompute that replaces the arrays starts the count again.
EditsAfter(n, f) == IF n > 0 /\ Valid(Parsed(f)) THEN 0 ELSE edits

\* Every variable of the page takes its value from record q.
Becomes(q) ==
    /\ state' = q.state
    /\ smallPosChart' = q.smallPosChart
    /\ smallVelChart' = q.smallVelChart
    /\ smallAccChart' = q.smallAccChart
    /\ mainChart' = q.mainChart
    /\ mainChartInner' = q.mainChartInner
    /\ table' = q.table
    /\ checked' = q.checked
    /\ listeners' = q.listeners

\* The DOMContentLoaded handler: updateFromForm runs twice.
PageLoad ==
    /\ ~loaded
    /\ \E f \in Forms :
        /\ Becomes(updateFromForm(updateFromForm(Page, f), f))
        /\ last' = FormEvent(2, f)
        /\ edits' = EditsAfter(2, f)
    /\ loaded' = TRUE
    /\ UNCHANGED call

\* A form submit (or the debounced input handler): one updateFromForm.
Submit ==
    /\ loaded
    /\ listeners < MaxListeners
    /\ \E f \in Forms :
        /\ Becomes(updateFromForm(Page, f))
        /\ last' = FormEvent(1, f)
        /\ edits' = EditsAfter(1, f)
    /\ UNCHANGED <<loaded, call>>

\* The user flips the checkbox; every registered change listener runs.
ToggleDrag ==
    /\ loaded
    /\ 2 * listeners <= MaxListeners
    /\ \E f \in Forms :
        /\ Becomes(RunListeners(listeners, [Page EXCEPT !.checked = ~checked], f))
        /\ last' = FormEvent(listeners, f)
        /\ edits' = EditsAfter(listeners, f)
    /\ UNCHANGED <<loaded, call>>

\* The chart delivering a drag-end: one of the three small charts.
ChartOf(c) ==
    IF c = "position" THEN smallPosChart
    ELSE IF c = "velocity" THEN smallVelChart ELSE smallAccChart

\* A point of a small chart is dropped: the chart was created with dragging
\* on, and the index is one of its dataset.
Drop ==
    /\ loaded
    /\ \E c \in ChartTypes :
        /\ ChartOf(c).live
        /\ ChartOf(c).drag
        /\ \E i \in 0..(Len(ChartOf(c).data) - 1), v \in DragVals :
            /\ Becomes(onDragEnd(c, i, v, Page))
            /\ last' = DragEvent(c, i, v)
    /\ edits' = edits + 1
    /\ UNCHANGED <<loaded, call>>

DragEnd == edits < MaxEdits /\ Drop

Next == PageLoad \/ Submit \/ ToggleDrag \/ DragEnd

Spec == Init /\ [][Next]_vars

\* ------------------------------------------------- the edit protocol alone

\* The page right after it loaded with the checkbox ticked and a form that
\* passed the checks: the charts are draggable.
InitEdit ==
    /\ loaded = TRUE
    /\ edits = 0
    /\ \E f \in Forms :
        /\ Valid(Parsed(f))
        /\ Is(updateFromForm(updateFromForm(FreshPage(TRUE), f), f))
        /\ last = FormEvent(2, f)
    /\ call = NoCall

ChainEdit == edits < MaxChain /\ Drop

NextEdit == ChainEdit

SpecEdit == InitEdit /\ [][NextEdit]_vars

\* ------------------------------------------- applyDragSync called directly

\* applyDragSync is called on the freshly generated trajectory with any
\* chart type and an index that may lie outside [0, N): one below, inside,
\* at N, or one past N.
SyncCall ==
    /\ loaded
    /\ edits = 0
    /\ \E c \in ChartTypes, i \in (-1)..(Len(state.times) + 1), v \in DragVals :
        /\ Becomes(applyDragSync(c, i, v, Page))
        /\ last' = DragEvent(c, i, v)
    /\ edits' = edits + 1
    /\ UNCHANGED <<loaded, call>>

NextSync == SyncCall

SpecSync == InitEdit /\ [][NextSync]_vars

\* --------------------------------------------------- the generator alone

GenX0 == {Zero, R(1, 1)}
GenV0 == {Zero, R(1, 1)}
GenA == {Zero, R(2, 1)}
GenT0 == {Zero, R(1, 10)}
GenT1 == {Zero, R(1, 5), R(1, 1)}
GenDt == {R(-1, 10), Zero, R(1, 10), R(1, 3)}

GenArgs ==
    [x0 : GenX0, v0 : GenV0, a : GenA, t0 : GenT0, t1 : GenT1, dt : GenDt,
     maxPoints : 0..MaxCap]

\* A step below the 8 decimals the generator keeps.
TinyDt == R(1, 1000000000)

\* Calls with that step: two samples of a trajectory at rest or in uniform
\* motion over the window [0, 1].
TinyStepArgs ==
    [x0 : GenX0, v0 : {Zero, R(1, 1)}, a : {Zero}, t0 : {Zero}, t1 : {R(1, 1)},
     dt : {TinyDt}, maxPoints : {2}]

InitGen ==
    /\ loaded = FALSE
    /\ Is(FreshPage(FALSE))
    /\ last = NoEvent
    /\ edits = 0
    /\ call \in [done : {FALSE}, args : GenArgs \cup TinyStepArgs, out : {Empty}]

\* computeKinematics is called with the chosen arguments.
CallGenerator ==
    /\ ~call.done
    /\ call' = [call EXCEPT
                 !.done = TRUE,
                 !.out = computeKinematics(call.args.x0, call.args.v0, call.args.a,
                                           call.args.t0, call.args.t1, call.args.dt,
                                           call.args.maxPoints)]
    /\ UNCHANGED <<loaded, state, smallPosChart, smallVelChart, smallAccChart,
                   mainChart, mainChartInner, table, checked, listeners, last, edits>>

NextGen == CallGenerator

SpecGen == InitGen /\ [][NextGen]_vars

\* ----------------------------------------------- the differentiators alone

\* Sample values and steps handed to the differentiators.
DiffVals == {Zero, R(1, 1), R(3, 1), R(-1, 2)}
DiffDt == {R(1, 10), R(1, 2)}

\* Every sequence over S of length at most n.
SeqsUpTo(S, n) == UNION {[1..k -> S] : k \in 0..n}

DiffArgs == [s : SeqsUpTo(DiffVals, MaxLen), dt : DiffDt]

NoOut == [vfx |-> <<>>, afx |-> <<>>, afv |-> <<>>]

InitDiff ==
    /\ loaded = FALSE
    /\ Is(FreshPage(FALSE))
    /\ last = NoEvent
    /\ edits = 0
    /\ call \in [done : {FALSE}, args : DiffArgs, out : {NoOut}]

\* The three differentiators are called on the chosen sequence and step.
CallDifferentiators ==
    /\ ~call.done
    /\ call' = [call EXCEPT
                 !.done = TRUE,
                 !.out = [vfx |-> computeVFromX(call.args.s, call.args.dt),
                          afx |-> computeAFromX(call.args.s, call.args.dt),
                          afv |-> computeAFromV(call.args.s, call.args.dt)]]
    /\ UNCHANGED <<loaded, state, smallPosChart, smallVelChart, smallAccChart,
                   mainChart, mainChartInner, table, checked, listeners, last, edits>>

NextDiff == CallDifferentiators

SpecDiff == InitDiff /\ [][NextDiff]_vars

\* ------------------------------------------------------------- properties

\* Every divisor of the differentiators is positive.
DtPositive == Lt(Zero, state.dt)

\* The series of the state a chart type edits.
Series(c, st) ==
    IF c = "position" THEN st.xs ELSE IF c = "velocity" THEN st.vs ELSE st.as

\* The step is a drag-end edit.
IsDrop == last'.op = "drag" /\ edits' = edits + 1

\* C1: in every reachable state the four arrays of the state have one
\* length N, every live small chart has a dataset of N points (so the index
\* it delivers on a drag-end is in [0, N)), and the index of a drag-end just
\* handled lies in [0, N).
C1_EqualLengths ==
    /\ Len(state.xs) = Len(state.times)
    /\ Len(state.vs) = Len(state.times)
    /\ Len(state.as) = Len(state.times)
    /\ \A c \in ChartTypes :
        ChartOf(c).live => Len(ChartOf(c).data) = Len(state.times)
    /\ last.op = "drag" => 0 <= last.index /\ last.index < Len(state.times)

\* A drag-end at the last index of a three-point trajectory has been handled.
C1_Witness ==
    /\ last.op = "drag"
    /\ Len(state.times) = 3
    /\ last.index = 2

\* C2: after a position edit, vs is computeVFromX of the edited positions
\* and as is computeAFromX of them, element for element.
C2_PositionEditClosure ==
    (last.op = "drag" /\ last.chartType = "position") =>
        /\ Get(state.xs, last.index) = last.value
        /\ state.vs = computeVFromX(state.xs, state.dt)
        /\ state.as = computeAFromX(state.xs, state.dt)

\* A position edit of an interior point, made after an earlier edit.
C2_Witness ==
    /\ last.op = "drag"
    /\ last.chartType = "position"
    /\ edits = 2
    /\ Len(state.xs) = 3
    /\ last.index = 1

\* C3: after an acceleration edit, vs is the forward-Euler integral of the
\* edited accelerations from v0 and xs is the trapezoidal integral of that
\* vs from x0.
C3_AccelerationEditChain ==
    (last.op = "drag" /\ last.chartType = "acceleration") =>
        /\ Get(state.as, last.index) = last.value
        /\ state.vs = integrateAToV(state.as, state.v0, state.dt)
        /\ state.xs = integrateVToX(state.vs, state.x0, state.dt)

\* An acceleration edit that moved the velocities, made after an earlier edit.
C3_Witness ==
    /\ last.op = "drag"
    /\ last.chartType = "acceleration"
    /\ edits = 2
    /\ Len(state.as) = 3
    /\ last.index = 0
    /\ Get(state.vs, 1) # Get(state.vs, 0)

\* C4: after a velocity edit, xs is the trapezoidal integral of the edited
\* velocities from x0 and as is computeAFromV of them.
C4_VelocityEditClosure ==
    (last.op = "drag" /\ last.chartType = "velocity") =>
        /\ Get(state.vs, last.index) = last.value
        /\ state.xs = integrateVToX(state.vs, state.x0, state.dt)
        /\ state.as = computeAFromV(state.vs, state.dt)

\* A velocity edit of an interior point, made after an earlier edit.
C4_Witness ==
    /\ last.op = "drag"
    /\ last.chartType = "velocity"
    /\ edits = 2
    /\ Len(state.vs) = 3
    /\ last.index = 1

\* C5: a drag-end edit of series S at index i with value v leaves S with
\* S[i] = v and every other element of S as it was.
C5_EditedSeriesKept ==
    [][IsDrop =>
        /\ Len(Series(last'.chartType, state')) = Len(Series(last'.chartType, state))
        /\ \A j \in 0..(Len(Series(last'.chartType, state)) - 1) :
            Get(Series(last'.chartType, state'), j) =
                IF j = last'.index THEN last'.value
                ELSE Get(Series(last'.chartType, state), j)]_vars

\* The second of two edits, at index 1 of a three-point series.
C5_Witness ==
    /\ last.op = "drag"
    /\ edits = 2
    /\ Len(state.times) = 3
    /\ last.index = 1
    /\ Get(Series(last.chartType, state), 1) = last.value
    /\ Get(Series(last.chartType, state), 0) # last.value

\* C6: a drag-end edit changes neither state.times nor state.dt, nor the
\* stored x0 and v0, whatever the index.
C6_EditKeepsTimesAndScalars ==
    [][IsDrop =>
        /\ state'.times = state.times
        /\ state'.dt = state.dt
        /\ state'.x0 = state.x0
        /\ state'.v0 = state.v0]_vars

\* The first position was dragged away from the stored x0.
C6_Witness ==
    /\ last.op = "drag"
    /\ last.chartType = "position"
    /\ last.index = 0
    /\ Get(state.xs, 0) = last.value
    /\ state.x0 # last.value

\* C7: after a drag-end edit the table, the three small charts and the
\* main chart on the page (the closure's mainChart) all show the current
\* xs, vs and as of the state.
C7_RenderersInSync ==
    last.op = "drag" =>
        /\ table = renderTable(state.times, state.xs, state.vs, state.as)
        /\ smallPosChart.data = state.xs
        /\ smallVelChart.data = state.vs
        /\ smallAccChart.data = state.as
        /\ mainChartInner.data = state.xs
        /\ mainChartInner.data2 = state.vs

\* C8: after a recompute that passed the checks, the state holds exactly
\* the generator's output for the parameters submitted (and those x0, v0,
\* dt), and the table and every chart were drawn from that new state.
C8_RecomputeReplaces ==
    (last.op = "recompute" /\ last.ok) =>
        /\ [times |-> state.times, xs |-> state.xs, vs |-> state.vs, as |-> state.as]
             = computeKinematics(last.params.x0, last.params.v0, last.params.a,
                                 last.params.t0, last.params.t1, last.params.dt,
                                 MaxPointsForm)
        /\ state.x0 = last.params.x0
        /\ state.v0 = last.params.v0
        /\ state.dt = last.params.dt
        /\ table = renderTable(state.times, state.xs, state.vs, state.as)
        /\ smallPosChart = NewChart(state.xs, <<>>, smallPosChart.drag)
        /\ smallVelChart = NewChart(state.vs, <<>>, smallVelChart.drag)
        /\ smallAccChart = NewChart(state.as, <<>>, smallAccChart.drag)
        /\ mainChartInner = NewChart(state.xs, state.vs, FALSE)

\* A recompute replaced a trajectory that a drag-end had edited.
C8_Witness ==
    /\ last.op = "recompute"
    /\ last.ok
    /\ last.dropped > 0
    /\ Len(state.times) = 3

\* C9: for dt > 0 the generator returns at most maxPoints samples.
C9_AtMostMaxPoints ==
    (call.done /\ Lt(Zero, call.args.dt)) =>
        Len(call.out.times) <= call.args.maxPoints

\* C10: called with dt <= 0 the generator returns four empty arrays.
C10_NonPositiveStepEmpty ==
    (call.done /\ Leq(call.args.dt, Zero)) => call.out = Empty

\* The generator was called with dt = 0, a window that holds samples and
\* room for them.
C10_Witness ==
    /\ call.done
    /\ call.args.dt = Zero
    /\ Leq(call.args.t0, call.args.t1)
    /\ call.args.maxPoints > 0
    /\ call.out = Empty

\* C11: after a recompute that passed the checks with parameters (x0, v0, a,
\* t0, t1, dt), the first sample is the stored initial condition:
\* times[0] = t0, xs[0] = x0 and vs[0] = v0 (to the generator's 8 decimals),
\* whatever t0 is.
C11_InitialConditionsAtFirstSample ==
    (last.op = "recompute" /\ last.ok) =>
        /\ Get(state.times, 0) = ToFixed(last.params.t0, GenDigits)
        /\ Get(state.xs, 0) = ToFixed(state.x0, GenDigits)
        /\ Get(state.vs, 0) = ToFixed(state.v0, GenDigits)

\* The unit of the last decimal the generator keeps: 1e-8.
GenUlp == R(1, Pow10(GenDigits))

\* |x| of a number.
AbsR(x) == IF IsNum(x) THEN <<Abs(x[1]), x[2]>> ELSE NaN

\* a and b differ by at most tol.
Near(a, b, tol) == Leq(AbsR(Sub(a, b)), tol)

\* C12 as stated: for dt > 0 the generator returns four arrays of one
\* length, times[0] is t0, consecutive times differ by dt (to the 8-decimal
\* rounding) and times is strictly increasing.
C12_StrictlyIncreasingTimes ==
    (call.done /\ Lt(Zero, call.args.dt)) =>
        /\ Len(call.out.xs) = Len(call.out.times)
        /\ Len(call.out.vs) = Len(call.out.times)
        /\ Len(call.out.as) = Len(call.out.times)
        /\ Len(call.out.times) > 0 =>
              Get(call.out.times, 0) = ToFixed(call.args.t0, GenDigits)
        /\ \A i \in 0..(Len(call.out.times) - 2) :
              /\ Near(Sub(Get(call.out.times, i + 1), Get(call.out.times, i)),
                      call.args.dt, GenUlp)
              /\ Lt(Get(call.out.times, i), Get(call.out.times, i + 1))

\* C12 as amended: the same, with times non-decreasing for every dt > 0
\* and strictly increasing when dt is at least the rounding unit 1e-8.
C12_UniformSpacing ==
    (call.done /\ Lt(Zero, call.args.dt)) =>
        /\ Len(call.out.xs) = Len(call.out.times)
        /\ Len(call.out.vs) = Len(call.out.times)
        /\ Len(call.out.as) = Len(call.out.times)
        /\ Len(call.out.times) > 0 =>
              Get(call.out.times, 0) = ToFixed(call.args.t0, GenDigits)
        /\ \A i \in 0..(Len(call.out.times) - 2) :
              /\ Near(Sub(Get(call.out.times, i + 1), Get(call.out.times, i)),
                      call.args.dt, GenUlp)
              /\ Leq(Get(call.out.times, i), Get(call.out.times, i + 1))
              /\ Leq(GenUlp, call.args.dt) =>
                    Lt(Get(call.out.times, i), Get(call.out.times, i + 1))

\* Three samples a third of a second apart, the second time rounded.
C12_Witness ==
    /\ call.done
    /\ call.args.dt = R(1, 3)
    /\ Len(call.out.times) = 3
    /\ Get(call.out.times, 1) = R(33333333, 100000000)

\* The largest integer not above the number x.
FloorR(x) == x[1] \div x[2]

Min(m, n) == IF m <= n THEN m ELSE n

\* C13: for dt > 0 and t1 >= t0 the generator returns
\* N = min(maxPoints, floor((t1 - t0)/dt) + 1) samples.
C13_SampleCount ==
    (call.done /\ Lt(Zero, call.args.dt) /\ Leq(call.args.t0, call.args.t1)) =>
        Len(call.out.times) =
            Min(call.args.maxPoints,
                FloorR(Div(Sub(call.args.t1, call.args.t0), call.args.dt)) + 1)

\* C14: a call of the edit with an index outside [0, N) leaves times, xs,
\* vs and as as they were (so each still has length N).
C14_OutOfRangeLeavesArrays ==
    [][(IsDrop /\ (last'.index < 0 \/ last'.index >= Len(state.times))) =>
        /\ state'.times = state.times
        /\ state'.xs = state.xs
        /\ state'.vs = state.vs
        /\ state'.as = state.as]_vars

\* C15: a differentiator given fewer samples than its formula needs does
\* not read outside the array, so after a position edit of a trajectory of
\* one or two samples every stored velocity and acceleration is a number
\* (none is undefined or NaN).
C15_ShortEditStoresNumbers ==
    (last.op = "drag" /\ last.chartType = "position" /\ Len(state.xs) < 3) =>
        \A i \in 0..(Len(state.xs) - 1) :
            IsNum(Get(state.vs, i)) /\ IsNum(Get(state.as, i))

RoundTol(dt) == Add(GenUlp, Div(GenUlp, dt))

\* C17: for a generated trajectory of N >= 3 samples, computeVFromX of the
\* generated positions equals the generated velocity at every interior index
\* 0 < i < N-1, within the rounding tolerance.
C17_InteriorVelocityRoundTrip ==
    (call.done /\ Len(call.out.xs) >= 3) =>
        \A i \in 1..(Len(call.out.xs) - 2) :
            Near(Get(computeVFromX(call.out.xs, call.args.dt), i),
                 Get(call.out.vs, i), RoundTol(call.args.dt))

\* An accelerated trajectory of three samples whose positions were rounded:
\* the central difference is close to the generated velocity, not equal.
C17_Witness ==
    /\ call.done
    /\ Len(call.out.xs) = 3
    /\ call.args.a = R(2, 1)
    /\ call.args.dt = R(1, 3)
    /\ Get(computeVFromX(call.out.xs, call.args.dt), 1) # Get(call.out.vs, 1)

\* The second difference of three consecutive samples p, q, r over step dt.
SecondDiff(p, q, r, dt) == Div(Add(Sub(r, Mul(Two, q)), p), Mul(dt, dt))

\* C18: for N >= 3, computeAFromX gives the second difference of
\* (s[i-1], s[i], s[i+1]) at interior indices, of (s[0], s[1], s[2]) at index
\* 0 and of (s[N-3], s[N-2], s[N-1]) at index N-1, hence as[0] = as[1] and
\* as[N-1] = as[N-2].
C18_SecondDifferenceBoundaries ==
    (call.done /\ Len(call.args.s) >= 3) =>
        /\ \A i \in 1..(Len(call.args.s) - 2) :
              Get(call.out.afx, i) =
                  SecondDiff(Get(call.args.s, i - 1), Get(call.args.s, i),
                             Get(call.args.s, i + 1), call.args.dt)
        /\ Get(call.out.afx, 0) =
              SecondDiff(Get(call.args.s, 0), Get(call.args.s, 1), Get(call.args.s, 2),
                         call.args.dt)
        /\ Get(call.out.afx, Len(call.args.s) - 1) =
              SecondDiff(Get(call.args.s, Len(call.args.s) - 3),
                         Get(call.args.s, Len(call.args.s) - 2),
                         Get(call.args.s, Len(call.args.s) - 1), call.args.dt)
        /\ Get(call.out.afx, 0) = Get(call.out.afx, 1)
        /\ Get(call.out.afx, Len(call.args.s) - 1) =
              Get(call.out.afx, Len(call.args.s) - 2)
        /\ Len(call.out.afx) = Len(call.args.s)

\* Four samples whose two triples have different second differences.
C18_Witness ==
    /\ call.done
    /\ Len(call.args.s) = 4
    /\ Get(call.out.afx, 1) # Get(call.out.afx, 2)
    /\ IsNum(Get(call.out.afx, 0))
    /\ IsNum(Get(call.out.afx, 3))

\* C19: for N >= 2, computeVFromX gives (s[1]-s[0])/dt at index 0,
\* (s[N-1]-s[N-2])/dt at index N-1 and (s[i+1]-s[i-1])/(2 dt) in between, and
\* computeAFromV returns the same array for every sequence and step.
C19_FirstDifferenceScheme ==
    call.done =>
        /\ call.out.afv = call.out.vfx
        /\ Len(call.out.vfx) = Len(call.args.s)
        /\ Len(call.args.s) >= 2 =>
            /\ Get(call.out.vfx, 0) =
                  Div(Sub(Get(call.args.s, 1), Get(call.args.s, 0)), call.args.dt)
            /\ Get(call.out.vfx, Len(call.args.s) - 1) =
                  Div(Sub(Get(call.args.s, Len(call.args.s) - 1),
                          Get(call.args.s, Len(call.args.s) - 2)), call.args.dt)
            /\ \A i \in 1..(Len(call.args.s) - 2) :
                  Get(call.out.vfx, i) =
                      Div(Sub(Get(call.args.s, i + 1), Get(call.args.s, i - 1)),
                          Mul(Two, call.args.dt))

\* Four samples where the central and the one-sided difference disagree at
\* an interior index.
C19_Witness ==
    /\ call.done
    /\ Len(call.args.s) = 4
    /\ Get(call.out.afv, 1) #
          Div(Sub(Get(call.args.s, 1), Get(call.args.s, 0)), call.args.dt)
    /\ Get(call.out.afv, 1) = Get(call.out.vfx, 1)

\* The n velocities v + a*k*dt, k = 0..n-1, of a constant acceleration.
LinearV(v, a, dt, n) == [k \in 1..n |-> Add(v, Mul(Mul(a, R(k - 1, 1)), dt))]

\* x0 + v*(k*dt) + a*(k*dt)^2/2.
ExactX(x0, v, a, dt, k) ==
    Add(Add(x0, Mul(v, Mul(R(k, 1), dt))),
        Mul(Mul(Mul(Half, a), Mul(R(k, 1), dt)), Mul(R(k, 1), dt)))

\* integrateVToX of linear velocities gives the exact positions at every
\* index, for the x0, v0, a and dt of the call.
TrapezoidExactOnLinear ==
    \A k \in 0..(MaxLen - 1) :
        Get(integrateVToX(LinearV(call.args.v0, call.args.a, call.args.dt, MaxLen),
                          call.args.x0, call.args.dt), k) =
            ExactX(call.args.x0, call.args.v0, call.args.a, call.args.dt, k)

\* The error the 8-decimal rounding of the samples can cause in a sum of n
\* trapezoids of width dt: 1e-8 times a whole number above 1 + n*dt.
SumTol(n, dt) == Mul(GenUlp, R(2 + FloorR(Mul(R(n, 1), dt)), 1))

\* C20 as stated: integrateVToX is exact for linear velocities, and
\* integrating the velocities of a generated trajectory from positions[0]
\* gives the generated positions.
C20_TrapezoidReproducesExactly ==
    (call.done /\ Len(call.out.xs) >= 1) =>
        /\ TrapezoidExactOnLinear
        /\ integrateVToX(call.out.vs, Get(call.out.xs, 0), call.args.dt) = call.out.xs

\* C20 as amended: integrateVToX is exact for linear velocities, and
\* integrating the velocities of a generated trajectory from positions[0]
\* gives the generated positions up to the 8-decimal rounding of the
\* generated samples.
C20_TrapezoidReproduces ==
    (call.done /\ Len(call.out.xs) >= 1) =>
        /\ TrapezoidExactOnLinear
        /\ Len(integrateVToX(call.out.vs, Get(call.out.xs, 0), call.args.dt))
              = Len(call.out.xs)
        /\ \A k \in 0..(Len(call.out.xs) - 1) :
              Near(Get(integrateVToX(call.out.vs, Get(call.out.xs, 0), call.args.dt), k),
                   Get(call.out.xs, k),
                   SumTol(Len(call.out.xs), call.args.dt))

\* An accelerated trajectory sampled every third of a second: the integral
\* of its rounded velocities is close to its rounded positions, not equal.
C20_Witness ==
    /\ call.done
    /\ Len(call.out.xs) = 3
    /\ call.args.a = R(2, 1)
    /\ call.args.dt = R(1, 3)
    /\ integrateVToX(call.out.vs, Get(call.out.xs, 0), call.args.dt) # call.out.xs

\* C21: once a drag-end edit has been applied, applying the same edit (same
\* chart, index and value) again leaves xs, vs and as as they are.
C21_EditIdempotent ==
    last.op = "drag" =>
        /\ SyncState(last.chartType, last.index, last.value, state).xs = state.xs
        /\ SyncState(last.chartType, last.index, last.value, state).vs = state.vs
        /\ SyncState(last.chartType, last.index, last.value, state).as = state.as

\* An interior position of a three-sample trajectory was edited after an
\* earlier edit, leaving different velocities at the two ends.
C21_Witness ==
    /\ last.op = "drag"
    /\ edits = 2
    /\ Len(state.times) = 3
    /\ last.index = 1
    /\ last.chartType = "position"
    /\ Get(state.vs, 0) # Get(state.vs, 2)

\* C22: a velocity or acceleration edit, at any index and after any earlier
\* edits, leaves xs[0] equal to the stored x0, and an acceleration edit
\* leaves vs[0] equal to the stored v0; the stored x0 and v0 are those the
\* state held before the edit, whatever xs[0] and vs[0] were then.
C22_FirstSampleReset ==
    [][(IsDrop /\ last'.chartType \in {"velocity", "acceleration"}) =>
        /\ Get(state'.xs, 0) = state.x0
        /\ state'.x0 = state.x0
        /\ state'.v0 = state.v0
        /\ last'.chartType = "acceleration" => Get(state'.vs, 0) = state.v0]_vars

\* An acceleration edit made after an earlier edit: the first position and
\* velocity are the stored x0 and v0.
C22_Witness ==
    /\ last.op = "drag"
    /\ last.chartType = "acceleration"
    /\ edits = 2
    /\ Len(state.times) = 3
    /\ Get(state.xs, 0) = state.x0
    /\ Get(state.vs, 0) = state.v0

\* C23: a change of the Enable-drag checkbox runs updateFromForm exactly
\* once, and the number of change listeners on the checkbox does not grow
\* once a listener is registered.
C23_OneRecomputePerToggle ==
    [][/\ checked' # checked => (last'.op = "recompute" /\ last'.runs = 1)
       /\ listeners > 0 => listeners' <= listeners]_vars

====
